---- MODULE Spec2Model ----
(***************************************************************************)
(* Session pipeline of the voice-translation relay (src/main.py).          *)
(*                                                                         *)
(* Every WebSocket connection is served by one coroutine translate_ws.     *)
(* All coroutines run on the single event loop that uvicorn.run starts,    *)
(* so the code between two awaits of one coroutine is atomic with respect  *)
(* to the other coroutines, and a synchronous call (transcoder,            *)
(* recognizer, translator, synthesizer) keeps the loop until it returns.   *)
(* `running` is the coroutine that holds the loop, NoSession when every    *)
(* coroutine is suspended at an await.                                     *)
(***************************************************************************)
EXTENDS Naturals, Sequences, FiniteSets

\* ------------------------------------------------------------- bounds
\* frames the clients send in all, over every connection
MaxMsgs == 2

\* ------------------------------------------------------------- inputs
\* connection handles (one WebSocket object per accepted connection),
\* named in the order the connections are accepted
Handles == {"h1", "h2"}
Earlier(s) == IF s = "h2" THEN {"h1"} ELSE {}
NoSession == "none"

\* client-supplied device ids, as sequences of characters; the code
\* compares ids only for equality, so the first connection's id is fixed
RawIds == { <<"a", " ">>, <<"a", "\t">> }
IdsFor(s) == IF Earlier(s) = {} THEN { <<"a", " ">> } ELSE RawIds

\* (source, target) display names a client puts in the path
LangPairs == { <<"English", "English">>,
               <<"Bhojpuri", "English">>,
               <<"English", "Bhojpuri">> }

\* candidate contents of googletrans.LANGUAGES
SupportedChoices == { {"hi", "en"} }

\* shapes of one inbound ASGI message, one per path through lines 108-143
FrameKinds == { "bytes",         \* binary frame
                "text_data",     \* {"type":"text","data":<any JSON value>}
                "text_badtype",  \* a JSON object whose type is not "text"
                "json_raises",   \* valid JSON on which .get or ["data"] raises:
                                 \* [1], "x", 3, null, {"type":"text"}
                "bad_json",      \* a text frame that is not JSON
                "neither" }      \* a message with no "bytes" and no "text"

NoMsg == [n |-> 0, kind |-> "none"]
NoText == [n |-> 0, src |-> "", dest |-> ""]

\* ------------------------------------------------------------- tables
\* name -> (recognition locale, synthesis language, translation code)
language_map ==
  [ Hindi         |-> <<"hi-IN", "hi", "hi">>,
    English       |-> <<"en-IN", "en", "en">>,
    Tamil         |-> <<"ta-IN", "ta", "ta">>,
    Telugu        |-> <<"te-IN", "te", "te">>,
    Bengali       |-> <<"bn-IN", "bn", "bn">>,
    Urdu          |-> <<"ur-IN", "ur", "ur">>,
    Marathi       |-> <<"mr-IN", "mr", "mr">>,
    Gujarati      |-> <<"gu-IN", "gu", "gu">>,
    Kannada       |-> <<"kn-IN", "kn", "kn">>,
    Malayalam     |-> <<"ml-IN", "ml", "ml">>,
    Punjabi       |-> <<"pa-IN", "pa", "pa">>,
    Assamese      |-> <<"as-IN", "as", "as">>,
    Odia          |-> <<"or-IN", "or", "or">>,
    Bhojpuri      |-> <<"hi-IN", "hi", "bho">>,
    Maithili      |-> <<"hi-IN", "hi", "mai">>,
    Chhattisgarhi |-> <<"hi-IN", "hi", "hne">>,
    Rajasthani    |-> <<"hi-IN", "hi", "raj">>,
    Konkani       |-> <<"hi-IN", "hi", "kok">>,
    Dogri         |-> <<"hi-IN", "hi", "doi">>,
    Kashmiri      |-> <<"hi-IN", "hi", "ks">>,
    Santhali      |-> <<"hi-IN", "hi", "sat">>,
    Sindhi        |-> <<"hi-IN", "hi", "sd">>,
    Manipuri      |-> <<"hi-IN", "hi", "mni">>,
    Bodo          |-> <<"hi-IN", "hi", "brx">>,
    Sanskrit      |-> <<"sa-IN", "hi", "sa">> ]

\* the default of language_map.get(name, ("hi-IN", "hi", "hi"))
DefaultProfile == <<"hi-IN", "hi", "hi">>

\* language_map.get(name, ("hi-IN", "hi", "hi"))
Lookup(name) ==
  IF name \in DOMAIN language_map THEN language_map[name] ELSE DefaultProfile

\* device_id.replace(" ", "_")
Sanitize(id) == [i \in DOMAIN id |-> IF id[i] = " " THEN "_" ELSE id[i]]

\* ------------------------------------------------------------- state
VARIABLES
  connected_devices,  \* the registry: sanitized device id -> handle
  supported_langs,    \* set(LANGUAGES.keys())
  pc,                 \* where each coroutine stands
  src,                \* parameters and locals of translate_ws, per handle
  tgt,
  device_id,
  src_locale,
  src_code,
  tgt_code,
  tgt_tts_lang,
  msg,                \* the inbound message being processed
  translated,         \* the result of the translation stage
  tmpfiles,           \* temporary files of the decode step that exist
  running,            \* the coroutine that holds the event loop
  inbox,              \* frames the client has sent, not yet received
  nsent,              \* frames the client has sent so far
  outbox,             \* frames the server has sent on the connection
  rest,               \* the last request to translate_only and its response
  fb                  \* a profile under repeated application of the fallback step

vars == << connected_devices, supported_langs, pc, src, tgt, device_id,
           src_locale,
           src_code, tgt_code, tgt_tts_lang, msg, translated, tmpfiles,
           running, inbox, nsent, outbox, rest, fb >>

locals == << src, tgt, device_id, src_locale, src_code, tgt_code, tgt_tts_lang >>

\* no request to translate_only has been made
NoRequest ==
  [ source_lang |-> "", target_lang |-> "", src_code |-> "", tgt_code |-> "",
    tgt_tts_lang |-> "", raised |-> FALSE, response |-> "none" ]

\* the fallback step has not been taken out of its handler
NoFallback ==
  [ source_lang |-> "", target_lang |-> "", applied |-> 0,
    src_code |-> "", tgt_code |-> "", tgt_tts_lang |-> "",
    once_src_code |-> "", once_tgt_code |-> "", once_tgt_tts_lang |-> "",
    changed |-> FALSE, warned |-> FALSE ]

\* dict operations
Put(d, k, v) == [x \in (DOMAIN d) \cup {k} |-> IF x = k THEN v ELSE d[x]]
Pop(d, k) == [x \in (DOMAIN d) \ {k} |-> d[x]]

Out(s, kind, lang) == [n |-> msg[s].n, kind |-> kind, lang |-> lang]

Init ==
  /\ connected_devices = << >>
  /\ supported_langs \in SupportedChoices
  /\ pc = [s \in Handles |-> "idle"]
  /\ src = [s \in Handles |-> ""]
  /\ tgt = [s \in Handles |-> ""]
  /\ device_id = [s \in Handles |-> << >>]
  /\ src_locale = [s \in Handles |-> ""]
  /\ src_code = [s \in Handles |-> ""]
  /\ tgt_code = [s \in Handles |-> ""]
  /\ tgt_tts_lang = [s \in Handles |-> ""]
  /\ msg = [s \in Handles |-> NoMsg]
  /\ translated = [s \in Handles |-> NoText]
  /\ tmpfiles = [s \in Handles |-> {}]
  /\ running = NoSession
  /\ inbox = [s \in Handles |-> << >>]
  /\ nsent = [s \in Handles |-> 0]
  /\ outbox = [s \in Handles |-> << >>]
  /\ rest = NoRequest
  /\ fb = NoFallback

\* translate_ws up to its first receive: sanitize, accept, look the two
\* languages up, register
Connect(s, id, sname, tname) ==
  /\ pc[s] = "idle"
  /\ \A e \in Earlier(s) : pc[e] # "idle"
  /\ running = NoSession
  /\ src' = [src EXCEPT ![s] = sname]
  /\ tgt' = [tgt EXCEPT ![s] = tname]
  /\ device_id' = [device_id EXCEPT ![s] = Sanitize(id)]
  /\ src_locale' = [src_locale EXCEPT ![s] = Lookup(sname)[1]]
  /\ src_code' = [src_code EXCEPT ![s] = Lookup(sname)[3]]
  /\ tgt_tts_lang' = [tgt_tts_lang EXCEPT ![s] = Lookup(tname)[2]]
  /\ tgt_code' = [tgt_code EXCEPT ![s] = Lookup(tname)[3]]
  /\ connected_devices' = Put(connected_devices, Sanitize(id), s)
  /\ pc' = [pc EXCEPT ![s] = "receive"]
  /\ UNCHANGED << supported_langs, rest, fb, msg, translated, tmpfiles, running,
                  inbox, nsent, outbox >>

RECURSIVE SumOver(_, _)
SumOver(f, S) ==
  IF S = {} THEN 0
  ELSE LET x == CHOOSE y \in S : TRUE IN f[x] + SumOver(f, S \ {x})

\* the client sends one more frame on its connection
ClientSend(s, kind) ==
  /\ pc[s] \notin {"idle", "closed"}
  /\ SumOver(nsent, Handles) < MaxMsgs
  /\ nsent' = [nsent EXCEPT ![s] = @ + 1]
  /\ inbox' = [inbox EXCEPT ![s] = Append(@, [n |-> nsent[s] + 1, kind |-> kind])]
  /\ UNCHANGED << connected_devices, supported_langs, rest, fb, pc, locals, msg,
                  translated, tmpfiles, running, outbox >>

\* the temporary files of one binary frame: the .webm written at lines
\* 110-112 and the .wav the transcoder exports
TempWebm == "webm"
TempWav == "wav"

\* the two removals in the other order: the missing .wav raises first and
\* the .webm is never removed
RemoveTempWavFirst(files) ==
  IF TempWav \in files THEN files \ {TempWebm, TempWav} ELSE files

\* with suppress(Exception): os.remove(webm_path); os.remove(wav_path)
\* (the second removal is skipped when the first one raises)
RemoveTemp(files) ==
  IF TempWebm \in files THEN files \ {TempWebm, TempWav} ELSE files

\* the outer finally: connected_devices.pop(device_id, None); the coroutine
\* is over and the event loop is free
LeaveNoPop(s) ==
  /\ connected_devices' = connected_devices
  /\ pc' = [pc EXCEPT ![s] = "closed"]
  /\ inbox' = [inbox EXCEPT ![s] = << >>]
  /\ running' = NoSession

Leave(s) ==
  /\ connected_devices' = Pop(connected_devices, device_id[s])
  /\ pc' = [pc EXCEPT ![s] = "closed"]
  /\ inbox' = [inbox EXCEPT ![s] = << >>]
  /\ running' = NoSession

\* exceptions websocket.receive() may raise
ReceiveExceptions == {"WebSocketDisconnect", "WebSocketException", "RuntimeError"}

\* a handler that answers the end of the connection with one more frame
RecvRaisesSaysBye(s, exc) ==
  /\ pc[s] = "receive"
  /\ running = NoSession
  /\ exc \in ReceiveExceptions
  /\ Leave(s)
  /\ outbox' = [outbox EXCEPT ![s] =
                  Append(@, [n |-> nsent[s], kind |-> "closing", lang |-> ""])]
  /\ UNCHANGED << supported_langs, rest, fb, locals, msg, translated, tmpfiles, nsent >>

\* await websocket.receive() raises: the two WebSocket exceptions break out
\* of the loop, anything else escapes it; both ways run the outer finally
RecvRaises(s, exc) ==
  /\ pc[s] = "receive"
  /\ running = NoSession
  /\ exc \in ReceiveExceptions
  /\ Leave(s)
  /\ UNCHANGED << supported_langs, rest, fb, locals, msg, translated, tmpfiles, nsent,
                  outbox >>

\* a receive that hands over the newest pending frame instead of the oldest
NextMsgNewest(s) == inbox[s][Len(inbox[s])]

\* the message the pending receive returns
NextMsg(s) == Head(inbox[s])

\* receive returns a message with "bytes": write it to a temporary .webm
\* and enter the decode try block
RecvBytes(s) ==
  /\ pc[s] = "receive"
  /\ running = NoSession
  /\ inbox[s] # << >>
  /\ NextMsg(s).kind = "bytes"
  /\ msg' = [msg EXCEPT ![s] = NextMsg(s)]
  /\ inbox' = [inbox EXCEPT ![s] = Tail(@)]
  /\ tmpfiles' = [tmpfiles EXCEPT ![s] = {TempWebm}]
  /\ pc' = [pc EXCEPT ![s] = "decode"]
  /\ running' = s
  /\ UNCHANGED << connected_devices, supported_langs, rest, fb, locals, translated,
                  nsent, outbox >>

\* what the transcoder and the recognizer may do
DecodeOutcomes == {"ok", "transcode_fail", "recognize_fail", "hang"}

\* AudioSegment.from_file(..).export(..), recognizer.record and
\* recognize_google, called synchronously on the event loop
Decode(s, outcome) ==
  /\ pc[s] = "decode"
  /\ running = s
  /\ CASE outcome = "ok" ->
            /\ tmpfiles' = [tmpfiles EXCEPT ![s] = RemoveTemp(@ \cup {TempWav})]
            /\ pc' = [pc EXCEPT ![s] = "resolve"]
            /\ running' = s
       [] outcome = "transcode_fail" ->
            /\ tmpfiles' = tmpfiles
            /\ pc' = [pc EXCEPT ![s] = "notify_stt"]
            /\ running' = NoSession
       [] outcome = "recognize_fail" ->
            /\ tmpfiles' = [tmpfiles EXCEPT ![s] = @ \cup {TempWav}]
            /\ pc' = [pc EXCEPT ![s] = "notify_stt"]
            /\ running' = NoSession
       [] outcome = "hang" ->
            /\ tmpfiles' = tmpfiles
            /\ pc' = [pc EXCEPT ![s] = "hung"]
            /\ running' = s
  /\ UNCHANGED << connected_devices, supported_langs, rest, fb, locals, msg, translated,
                  inbox, nsent, outbox >>

\* receive returns a message with "text": json.loads, payload.get("type"),
\* payload["data"]; only json.JSONDecodeError is caught
RecvText(s) ==
  /\ pc[s] = "receive"
  /\ running = NoSession
  /\ inbox[s] # << >>
  /\ NextMsg(s).kind \in {"text_data", "text_badtype", "json_raises",
                          "bad_json"}
  /\ msg' = [msg EXCEPT ![s] = NextMsg(s)]
  /\ CASE NextMsg(s).kind = "bad_json" ->
            /\ pc' = [pc EXCEPT ![s] = "notify_invalid"]
            /\ inbox' = [inbox EXCEPT ![s] = Tail(@)]
            /\ UNCHANGED << connected_devices, running >>
       [] NextMsg(s).kind = "text_badtype" ->
            /\ pc' = [pc EXCEPT ![s] = "notify_unsupported"]
            /\ inbox' = [inbox EXCEPT ![s] = Tail(@)]
            /\ UNCHANGED << connected_devices, running >>
       [] NextMsg(s).kind = "json_raises" ->
            \* AttributeError of payload.get, KeyError of payload["data"]
            Leave(s)
       [] NextMsg(s).kind = "text_data" ->
            /\ pc' = [pc EXCEPT ![s] = "resolve"]
            /\ inbox' = [inbox EXCEPT ![s] = Tail(@)]
            /\ running' = s
            /\ UNCHANGED connected_devices
  /\ UNCHANGED << supported_langs, rest, fb, locals, translated, tmpfiles, nsent, outbox >>

\* receive returns a message with neither key
RecvOther(s) ==
  /\ pc[s] = "receive"
  /\ running = NoSession
  /\ inbox[s] # << >>
  /\ NextMsg(s).kind = "neither"
  /\ msg' = [msg EXCEPT ![s] = NextMsg(s)]
  /\ inbox' = [inbox EXCEPT ![s] = Tail(@)]
  /\ pc' = [pc EXCEPT ![s] = "notify_unknown"]
  /\ UNCHANGED << connected_devices, supported_langs, rest, fb, locals, translated,
                  tmpfiles, running, nsent, outbox >>

\* the await points that send one explanatory string, and what they send
NoticePcs == {"notify_stt", "notify_invalid", "notify_unsupported",
              "notify_unknown", "notify_translation", "notify_tts"}

\* the notices of the two text-frame branches swapped
NoticeKindSwapped(p) ==
  CASE p = "notify_stt" -> "stt_failed"
    [] p = "notify_invalid" -> "unsupported_type"
    [] p = "notify_unsupported" -> "invalid_json"
    [] p = "notify_unknown" -> "unknown_format"
    [] p = "notify_translation" -> "translation_failed"
    [] p = "notify_tts" -> "tts_failed"

NoticeKind(p) ==
  CASE p = "notify_stt" -> "stt_failed"
    [] p = "notify_invalid" -> "invalid_json"
    [] p = "notify_unsupported" -> "unsupported_type"
    [] p = "notify_unknown" -> "unknown_format"
    [] p = "notify_translation" -> "translation_failed"
    [] p = "notify_tts" -> "tts_failed"

\* every await websocket.send_* of the loop
SendPcs == NoticePcs \cup {"warn_fallback", "send_ack", "send_audio"}

\* a notice has been sent: leave the except block (the decode step's
\* finally removes its files) and go back to receive
NoticeSent(s) ==
  /\ pc[s] \in NoticePcs
  /\ running = NoSession
  /\ outbox' = [outbox EXCEPT ![s] = Append(@, Out(s, NoticeKind(pc[s]), ""))]
  /\ tmpfiles' = [tmpfiles EXCEPT ![s] =
                    IF pc[s] = "notify_stt" THEN RemoveTemp(@) ELSE @]
  /\ pc' = [pc EXCEPT ![s] = "receive"]
  /\ UNCHANGED << connected_devices, supported_langs, rest, fb, locals, msg, translated,
                  running, inbox, nsent >>

\* a send raises: inside the translation and synthesis try blocks the
\* except clause sends a notice, anywhere else the exception leaves the loop
SendRaises(s) ==
  /\ pc[s] \in SendPcs
  /\ running = NoSession
  /\ CASE pc[s] = "send_ack" ->
            /\ pc' = [pc EXCEPT ![s] = "notify_translation"]
            /\ UNCHANGED << connected_devices, running, inbox >>
       [] pc[s] = "send_audio" ->
            /\ pc' = [pc EXCEPT ![s] = "notify_tts"]
            /\ UNCHANGED << connected_devices, running, inbox >>
       [] OTHER -> Leave(s)
  /\ tmpfiles' = [tmpfiles EXCEPT ![s] =
                    IF pc[s] = "notify_stt" THEN RemoveTemp(@) ELSE @]
  /\ UNCHANGED << supported_langs, rest, fb, locals, msg, translated, nsent, outbox >>

\* the fallback step warning without storing the default codes
ResolveNoStore(s) ==
  /\ pc[s] = "resolve"
  /\ running = s
  /\ IF tgt_code[s] \notin supported_langs
       THEN /\ pc' = [pc EXCEPT ![s] = "warn_fallback"]
            /\ running' = NoSession
       ELSE /\ pc' = [pc EXCEPT ![s] = "translate"]
            /\ UNCHANGED running
  /\ UNCHANGED << connected_devices, supported_langs, rest, fb, locals, msg, translated,
                  tmpfiles, inbox, nsent, outbox >>

\* the fallback step: lines 145-149
Resolve(s) ==
  /\ pc[s] = "resolve"
  /\ running = s
  /\ src_code' = [src_code EXCEPT ![s] =
                    IF @ \notin supported_langs THEN "hi" ELSE @]
  /\ IF tgt_code[s] \notin supported_langs
       THEN /\ tgt_code' = [tgt_code EXCEPT ![s] = "hi"]
            /\ tgt_tts_lang' = [tgt_tts_lang EXCEPT ![s] = "hi"]
            /\ pc' = [pc EXCEPT ![s] = "warn_fallback"]
            /\ running' = NoSession
       ELSE /\ UNCHANGED << tgt_code, tgt_tts_lang, running >>
            /\ pc' = [pc EXCEPT ![s] = "translate"]
  /\ UNCHANGED << connected_devices, supported_langs, rest, fb, src, tgt, device_id,
                  src_locale, msg, translated, tmpfiles, inbox, nsent, outbox >>

\* the fallback warning has been sent
WarnSent(s) ==
  /\ pc[s] = "warn_fallback"
  /\ running = NoSession
  /\ outbox' = [outbox EXCEPT ![s] = Append(@, Out(s, "fallback", ""))]
  /\ pc' = [pc EXCEPT ![s] = "translate"]
  /\ running' = s
  /\ UNCHANGED << connected_devices, supported_langs, rest, fb, locals, msg, translated,
                  tmpfiles, inbox, nsent >>

\* what a translator or synthesizer call may do
StageOutcomes == {"ok", "fail", "hang"}

\* the translation stage going on to synthesis without the acknowledgment
TranslateSkipsAck(s, outcome) ==
  /\ pc[s] = "translate"
  /\ running = s
  /\ CASE outcome = "ok" ->
            /\ translated' = [translated EXCEPT ![s] =
                 [n |-> msg[s].n, src |-> src_code[s], dest |-> tgt_code[s]]]
            /\ pc' = [pc EXCEPT ![s] = "synthesize"]
            /\ running' = s
       [] outcome = "fail" ->
            /\ pc' = [pc EXCEPT ![s] = "notify_translation"]
            /\ running' = NoSession
            /\ UNCHANGED translated
       [] outcome = "hang" ->
            /\ pc' = [pc EXCEPT ![s] = "hung"]
            /\ UNCHANGED << translated, running >>
  /\ UNCHANGED << connected_devices, supported_langs, rest, fb, locals, msg, tmpfiles,
                  inbox, nsent, outbox >>

\* the translation stage without its try/except: a failure leaves the loop
TranslateUncaught(s, outcome) ==
  /\ pc[s] = "translate"
  /\ running = s
  /\ CASE outcome = "ok" ->
            /\ translated' = [translated EXCEPT ![s] =
                 [n |-> msg[s].n, src |-> src_code[s], dest |-> tgt_code[s]]]
            /\ pc' = [pc EXCEPT ![s] = "send_ack"]
            /\ running' = NoSession
            /\ UNCHANGED << connected_devices, inbox >>
       [] outcome = "fail" ->
            /\ Leave(s)
            /\ UNCHANGED translated
       [] outcome = "hang" ->
            /\ pc' = [pc EXCEPT ![s] = "hung"]
            /\ UNCHANGED << connected_devices, inbox, translated, running >>
  /\ UNCHANGED << supported_langs, rest, fb, locals, msg, tmpfiles, nsent, outbox >>

\* translator.translate(text, src=src_code, dest=tgt_code), synchronous
Translate(s, outcome) ==
  /\ pc[s] = "translate"
  /\ running = s
  /\ CASE outcome = "ok" ->
            /\ translated' = [translated EXCEPT ![s] =
                 [n |-> msg[s].n, src |-> src_code[s], dest |-> tgt_code[s]]]
            /\ pc' = [pc EXCEPT ![s] = "send_ack"]
            /\ running' = NoSession
       [] outcome = "fail" ->
            /\ pc' = [pc EXCEPT ![s] = "notify_translation"]
            /\ running' = NoSession
            /\ UNCHANGED translated
       [] outcome = "hang" ->
            /\ pc' = [pc EXCEPT ![s] = "hung"]
            /\ UNCHANGED << translated, running >>
  /\ UNCHANGED << connected_devices, supported_langs, rest, fb, locals, msg, tmpfiles,
                  inbox, nsent, outbox >>

\* the structured text acknowledgment has been sent
AckSent(s) ==
  /\ pc[s] = "send_ack"
  /\ running = NoSession
  /\ outbox' = [outbox EXCEPT ![s] =
                  Append(@, [n |-> translated[s].n, kind |-> "ack",
                             lang |-> translated[s].dest])]
  /\ pc' = [pc EXCEPT ![s] = "synthesize"]
  /\ running' = s
  /\ UNCHANGED << connected_devices, supported_langs, rest, fb, locals, msg, translated,
                  tmpfiles, inbox, nsent >>

\* gTTS(text=translated, lang=tgt_tts_lang) and write_to_fp, synchronous
Synthesize(s, outcome) ==
  /\ pc[s] = "synthesize"
  /\ running = s
  /\ CASE outcome = "ok" ->
            /\ pc' = [pc EXCEPT ![s] = "send_audio"]
            /\ running' = NoSession
       [] outcome = "fail" ->
            /\ pc' = [pc EXCEPT ![s] = "notify_tts"]
            /\ running' = NoSession
       [] outcome = "hang" ->
            /\ pc' = [pc EXCEPT ![s] = "hung"]
            /\ UNCHANGED running
  /\ UNCHANGED << connected_devices, supported_langs, rest, fb, locals, msg, translated,
                  tmpfiles, inbox, nsent, outbox >>

\* the broadcast variant: the audio goes to every other registered device
AudioSentBroadcast(s) ==
  /\ pc[s] = "send_audio"
  /\ running = NoSession
  /\ outbox' = [u \in Handles |->
                  IF u # s /\ \E k \in DOMAIN connected_devices :
                                 connected_devices[k] = u
                    THEN Append(outbox[u], [n |-> msg[u].n, kind |-> "audio",
                                            lang |-> tgt_tts_lang[s]])
                    ELSE outbox[u]]
  /\ pc' = [pc EXCEPT ![s] = "receive"]
  /\ UNCHANGED << connected_devices, supported_langs, rest, fb, locals, msg, translated,
                  tmpfiles, running, inbox, nsent >>

\* the synthesized audio has been sent to the sender
AudioSent(s) ==
  /\ pc[s] = "send_audio"
  /\ running = NoSession
  /\ outbox' = [outbox EXCEPT ![s] =
                  Append(@, [n |-> translated[s].n, kind |-> "audio",
                             lang |-> tgt_tts_lang[s]])]
  /\ pc' = [pc EXCEPT ![s] = "receive"]
  /\ UNCHANGED << connected_devices, supported_langs, rest, fb, locals, msg, translated,
                  tmpfiles, running, inbox, nsent >>

Next ==
  \/ \E s \in Handles, lp \in LangPairs :
       \E id \in IdsFor(s) : Connect(s, id, lp[1], lp[2])
  \/ \E s \in Handles, kind \in FrameKinds : ClientSend(s, kind)
  \/ \E s \in Handles, exc \in ReceiveExceptions : RecvRaises(s, exc)
  \/ \E s \in Handles : RecvBytes(s)
  \/ \E s \in Handles, o \in DecodeOutcomes : Decode(s, o)
  \/ \E s \in Handles : RecvText(s)
  \/ \E s \in Handles : RecvOther(s)
  \/ \E s \in Handles : NoticeSent(s)
  \/ \E s \in Handles : SendRaises(s)
  \/ \E s \in Handles : Resolve(s)
  \/ \E s \in Handles : WarnSent(s)
  \/ \E s \in Handles, o \in StageOutcomes : Translate(s, o)
  \/ \E s \in Handles : AckSent(s)
  \/ \E s \in Handles, o \in StageOutcomes : Synthesize(s, o)
  \/ \E s \in Handles : AudioSent(s)

Spec == Init /\ [][Next]_vars

\* ------------------------------------------------- the fallback step
\* the fallback step substituting the default profile's locale, which is
\* no translation code, for an unsupported code
FallbackWsLocale(p, sup) ==
  [ src_code |-> IF p.src_code \notin sup THEN "hi-IN" ELSE p.src_code,
    tgt_code |-> IF p.tgt_code \notin sup THEN "hi-IN" ELSE p.tgt_code,
    tgt_tts_lang |-> IF p.tgt_code \notin sup THEN "hi" ELSE p.tgt_tts_lang,
    changed |-> p.src_code \notin sup \/ p.tgt_code \notin sup,
    warned |-> p.tgt_code \notin sup ]

\* lines 145-149 of translate_ws as a function of the three locals and the
\* supported set: the source code falls back silently, the target code
\* falls back together with the voice and is reported
FallbackWs(p, sup) ==
  [ src_code |-> IF p.src_code \notin sup THEN "hi" ELSE p.src_code,
    tgt_code |-> IF p.tgt_code \notin sup THEN "hi" ELSE p.tgt_code,
    tgt_tts_lang |-> IF p.tgt_code \notin sup THEN "hi" ELSE p.tgt_tts_lang,
    changed |-> p.src_code \notin sup \/ p.tgt_code \notin sup,
    warned |-> p.tgt_code \notin sup ]

\* lines 195-198 of translate_only: the two codes fall back, the voice is
\* left alone and nothing is reported
FallbackRest(p, sup) ==
  [ src_code |-> IF p.src_code \notin sup THEN "hi" ELSE p.src_code,
    tgt_code |-> IF p.tgt_code \notin sup THEN "hi" ELSE p.tgt_code,
    tgt_tts_lang |-> p.tgt_tts_lang,
    changed |-> p.src_code \notin sup \/ p.tgt_code \notin sup,
    warned |-> FALSE ]

\* the codes and the voice language_map gives for a pair of language names
ProfileOf(sname, tname) ==
  [ src_code |-> Lookup(sname)[3], tgt_code |-> Lookup(tname)[3],
    tgt_tts_lang |-> Lookup(tname)[2] ]

\* every language name of language_map and one that is not in it
ProfileNames == (DOMAIN language_map) \cup {"Klingon"}

\* the supported sets that contain the default code: the fallback step
\* asks only whether the two codes of the profile are members, so the sets
\* are told apart by which of the two they hold
SupportedSets(sname, tname) ==
  { {"hi"} \cup S : S \in SUBSET {Lookup(sname)[3], Lookup(tname)[3]} }

\* the state at a first application of the fallback step, for every
\* profile and supported set
InitFallback ==
  /\ connected_devices = << >>
  /\ pc = [s \in Handles |-> "idle"]
  /\ src = [s \in Handles |-> ""]
  /\ tgt = [s \in Handles |-> ""]
  /\ device_id = [s \in Handles |-> << >>]
  /\ src_locale = [s \in Handles |-> ""]
  /\ src_code = [s \in Handles |-> ""]
  /\ tgt_code = [s \in Handles |-> ""]
  /\ tgt_tts_lang = [s \in Handles |-> ""]
  /\ msg = [s \in Handles |-> NoMsg]
  /\ translated = [s \in Handles |-> NoText]
  /\ tmpfiles = [s \in Handles |-> {}]
  /\ running = NoSession
  /\ inbox = [s \in Handles |-> << >>]
  /\ nsent = [s \in Handles |-> 0]
  /\ outbox = [s \in Handles |-> << >>]
  /\ rest = NoRequest
  /\ \E sname \in ProfileNames, tname \in ProfileNames :
       /\ supported_langs \in SupportedSets(sname, tname)
       /\ fb = [ NoFallback EXCEPT
                   !.source_lang = sname, !.target_lang = tname,
                   !.src_code = ProfileOf(sname, tname).src_code,
                   !.tgt_code = ProfileOf(sname, tname).tgt_code,
                   !.tgt_tts_lang = ProfileOf(sname, tname).tgt_tts_lang ]

\* what one application of a fallback step makes of the profile in fb
Applied(r) ==
  [ fb EXCEPT !.applied = @ + 1,
              !.src_code = r.src_code, !.tgt_code = r.tgt_code,
              !.tgt_tts_lang = r.tgt_tts_lang,
              !.once_src_code = IF fb.applied = 0 THEN r.src_code ELSE @,
              !.once_tgt_code = IF fb.applied = 0 THEN r.tgt_code ELSE @,
              !.once_tgt_tts_lang = IF fb.applied = 0 THEN r.tgt_tts_lang ELSE @,
              !.changed = r.changed, !.warned = r.warned ]

\* the fallback step of translate_ws applied to the profile (it runs once
\* per message on the same locals)
ApplyFallbackWs ==
  /\ fb.applied < 2
  /\ fb' = Applied(FallbackWs(fb, supported_langs))
  /\ UNCHANGED << connected_devices, supported_langs, pc, locals, msg,
                  translated, tmpfiles, running, inbox, nsent, outbox, rest >>

\* the fallback step of translate_only applied to the profile
ApplyFallbackRest ==
  /\ fb.applied < 2
  /\ fb' = Applied(FallbackRest(fb, supported_langs))
  /\ UNCHANGED << connected_devices, supported_langs, pc, locals, msg,
                  translated, tmpfiles, running, inbox, nsent, outbox, rest >>

NextFallback == ApplyFallbackWs \/ ApplyFallbackRest

SpecFallback == InitFallback /\ [][NextFallback]_vars

\* ------------------------------------------------- POST /translate-only/
\* language names a request may carry: a supported one, one whose code
\* googletrans does not know, and one that is not in language_map
RestNames == {"English", "Bhojpuri", "Klingon"}

\* the coroutine of translate_only holding the event loop
RestHandler == "translate_only"

\* translate_only without its try: a failure of the translator leaves the
\* handler as an exception
TranslateOnlyUncaught(slang, tlang, outcome) ==
  /\ running = NoSession
  /\ LET p == FallbackRest(ProfileOf(slang, tlang), supported_langs)
     IN rest' = [ source_lang |-> slang, target_lang |-> tlang,
                  src_code |-> p.src_code, tgt_code |-> p.tgt_code,
                  tgt_tts_lang |-> p.tgt_tts_lang,
                  raised |-> (outcome = "fail"),
                  response |-> CASE outcome = "ok" -> "translated_text"
                                 [] outcome = "fail" -> "exception"
                                 [] outcome = "hang" -> "pending" ]
  /\ running' = IF outcome = "hang" THEN RestHandler ELSE NoSession
  /\ UNCHANGED << connected_devices, supported_langs, pc, locals, msg,
                  translated, tmpfiles, inbox, nsent, outbox, fb >>

\* translate_only, lines 191-204: no await inside, so the whole handler is
\* one step of the event loop; a translator that never returns keeps the
\* loop
TranslateOnly(slang, tlang, outcome) ==
  /\ running = NoSession
  /\ LET p == FallbackRest(ProfileOf(slang, tlang), supported_langs)
     IN rest' = [ source_lang |-> slang, target_lang |-> tlang,
                  src_code |-> p.src_code, tgt_code |-> p.tgt_code,
                  tgt_tts_lang |-> p.tgt_tts_lang,
                  raised |-> (outcome = "fail"),
                  response |-> CASE outcome = "ok" -> "translated_text"
                                 [] outcome = "fail" -> "error"
                                 [] outcome = "hang" -> "pending" ]
  /\ running' = IF outcome = "hang" THEN RestHandler ELSE NoSession
  /\ UNCHANGED << connected_devices, supported_langs, pc, locals, msg,
                  translated, tmpfiles, inbox, nsent, outbox, fb >>

\* the endpoint next to sessions that connect and disconnect
NextRest ==
  \/ \E s \in Handles, lp \in LangPairs :
       \E id \in IdsFor(s) : Connect(s, id, lp[1], lp[2])
  \/ \E s \in Handles, exc \in ReceiveExceptions : RecvRaises(s, exc)
  \/ \E slang \in RestNames, tlang \in RestNames, o \in StageOutcomes :
       TranslateOnly(slang, tlang, o)

SpecRest == Init /\ [][NextRest]_vars

\* ------------------------------------------------- mian.py, translate_ws
\* language_map.get(name, ("hi-IN", "hi-IN", "hi")) over the table of
\* mian.py, which differs in the voices of Assamese and Odia
MianDefaultProfile == <<"hi-IN", "hi-IN", "hi">>

MianLookup(name) ==
  IF name \in {"Assamese", "Odia"}
    THEN <<language_map[name][1], "hi", language_map[name][3]>>
    ELSE IF name \in DOMAIN language_map THEN language_map[name]
         ELSE MianDefaultProfile

\* frames a client of mian.py may send: binary or text
MianFrameKinds == {"bytes", "text"}

\* the handler has returned / an exception has left the handler
MianEnded == {"closed", "failed"}

\* translate_ws up to its first receive_bytes: accept, look the languages
\* up, store the websocket under the device id as given
MianConnect(s, id, sname, tname) ==
  /\ pc[s] = "idle"
  /\ \A e \in Earlier(s) : pc[e] # "idle"
  /\ running = NoSession
  /\ src' = [src EXCEPT ![s] = sname]
  /\ tgt' = [tgt EXCEPT ![s] = tname]
  /\ device_id' = [device_id EXCEPT ![s] = id]
  /\ src_locale' = [src_locale EXCEPT ![s] = MianLookup(sname)[1]]
  /\ src_code' = [src_code EXCEPT ![s] = MianLookup(sname)[3]]
  /\ tgt_tts_lang' = [tgt_tts_lang EXCEPT ![s] = MianLookup(tname)[2]]
  /\ tgt_code' = [tgt_code EXCEPT ![s] = MianLookup(tname)[3]]
  /\ connected_devices' = Put(connected_devices, id, s)
  /\ pc' = [pc EXCEPT ![s] = "receive"]
  /\ UNCHANGED << supported_langs, rest, fb, msg, translated, tmpfiles,
                  running, inbox, nsent, outbox >>

\* the client sends one more frame on its connection
MianClientSend(s, kind) ==
  /\ pc[s] \notin {"idle"} \cup MianEnded
  /\ SumOver(nsent, Handles) < MaxMsgs
  /\ nsent' = [nsent EXCEPT ![s] = @ + 1]
  /\ inbox' = [inbox EXCEPT ![s] = Append(@, [n |-> nsent[s] + 1, kind |-> kind])]
  /\ UNCHANGED << connected_devices, supported_langs, rest, fb, pc, locals,
                  msg, translated, tmpfiles, running, outbox >>

\* an exception reaches the outer try: WebSocketDisconnect is the only one
\* caught, and its handler is del connected_devices[device_id], which
\* raises KeyError when the key is gone; anything else leaves the handler
\* with the entry in place
MianEscape(s, exc) ==
  /\ IF exc = "WebSocketDisconnect" /\ device_id[s] \in DOMAIN connected_devices
       THEN /\ connected_devices' = Pop(connected_devices, device_id[s])
            /\ pc' = [pc EXCEPT ![s] = "closed"]
       ELSE /\ connected_devices' = connected_devices
            /\ pc' = [pc EXCEPT ![s] = "failed"]
  /\ inbox' = [inbox EXCEPT ![s] = << >>]
  /\ running' = NoSession

\* await websocket.receive_bytes() raises
MianRecvRaises(s, exc) ==
  /\ pc[s] = "receive"
  /\ running = NoSession
  /\ exc \in ReceiveExceptions
  /\ MianEscape(s, exc)
  /\ UNCHANGED << supported_langs, rest, fb, locals, msg, translated,
                  tmpfiles, nsent, outbox >>

\* receive_bytes returns the bytes of a binary frame; the handler goes on
\* to the transcoding of lines 80-83 without leaving the event loop
MianRecvBytes(s) ==
  /\ pc[s] = "receive"
  /\ running = NoSession
  /\ inbox[s] # << >>
  /\ NextMsg(s).kind = "bytes"
  /\ msg' = [msg EXCEPT ![s] = NextMsg(s)]
  /\ inbox' = [inbox EXCEPT ![s] = Tail(@)]
  /\ pc' = [pc EXCEPT ![s] = "decode"]
  /\ running' = s
  /\ UNCHANGED << connected_devices, supported_langs, rest, fb, locals,
                  translated, tmpfiles, nsent, outbox >>

\* receive_bytes on a text frame: message["bytes"] raises KeyError, which
\* the outer try does not catch
MianRecvText(s) ==
  /\ pc[s] = "receive"
  /\ running = NoSession
  /\ inbox[s] # << >>
  /\ NextMsg(s).kind = "text"
  /\ msg' = [msg EXCEPT ![s] = NextMsg(s)]
  /\ MianEscape(s, "KeyError")
  /\ UNCHANGED << supported_langs, rest, fb, locals, translated, tmpfiles,
                  nsent, outbox >>

\* what AudioSegment.from_file, export and recognizer.record may do
MianDecodeOutcomes == {"ok", "transcode_fail", "hang"}

\* lines 80-87: transcoding and recognizer.record, outside the inner try;
\* what they raise on corrupt or empty bytes leaves the loop
MianDecode(s, outcome) ==
  /\ pc[s] = "decode"
  /\ running = s
  /\ CASE outcome = "ok" ->
            /\ pc' = [pc EXCEPT ![s] = "stages"]
            /\ UNCHANGED << connected_devices, running, inbox >>
       [] outcome = "transcode_fail" -> MianEscape(s, "CouldntDecodeError")
       [] outcome = "hang" ->
            /\ pc' = [pc EXCEPT ![s] = "hung"]
            /\ UNCHANGED << connected_devices, running, inbox >>
  /\ UNCHANGED << supported_langs, rest, fb, locals, msg, translated,
                  tmpfiles, nsent, outbox >>

\* what recognize_google, translate and gTTS, called one after the other
\* inside the inner try, may do
MianStageOutcomes ==
  {"ok", "UnknownValueError", "RequestError", "Exception", "hang"}

\* lines 90-101: the three stages up to the first await
MianStages(s, outcome) ==
  /\ pc[s] = "stages"
  /\ running = s
  /\ CASE outcome = "ok" ->
            /\ translated' = [translated EXCEPT ![s] = msg[s].n]
            /\ pc' = [pc EXCEPT ![s] = "send_audio"]
            /\ running' = NoSession
       [] outcome = "UnknownValueError" ->
            /\ UNCHANGED translated
            /\ pc' = [pc EXCEPT ![s] = "notify_understand"]
            /\ running' = NoSession
       [] outcome = "RequestError" ->
            /\ UNCHANGED translated
            /\ pc' = [pc EXCEPT ![s] = "notify_service"]
            /\ running' = NoSession
       [] outcome = "Exception" ->
            /\ UNCHANGED translated
            /\ pc' = [pc EXCEPT ![s] = "notify_error"]
            /\ running' = NoSession
       [] outcome = "hang" ->
            /\ UNCHANGED << translated, running >>
            /\ pc' = [pc EXCEPT ![s] = "hung"]
  /\ UNCHANGED << connected_devices, supported_langs, rest, fb, locals, msg,
                  tmpfiles, inbox, nsent, outbox >>

\* await websocket.send_bytes(tts_io.read()) has sent the audio
MianAudioSent(s) ==
  /\ pc[s] = "send_audio"
  /\ running = NoSession
  /\ outbox' = [outbox EXCEPT ![s] = Append(@, Out(s, "audio", tgt_tts_lang[s]))]
  /\ pc' = [pc EXCEPT ![s] = "receive"]
  /\ UNCHANGED << connected_devices, supported_langs, rest, fb, locals, msg,
                  translated, tmpfiles, running, inbox, nsent >>

\* the three except clauses of the inner try and the notice each sends
MianNoticePcs == {"notify_understand", "notify_service", "notify_error"}

MianNoticeKind(p) ==
  CASE p = "notify_understand" -> "not_understood"
    [] p = "notify_service" -> "service_error"
    [] p = "notify_error" -> "error"

\* the notice of an except clause has been sent; the loop goes round
MianNoticeSent(s) ==
  /\ pc[s] \in MianNoticePcs
  /\ running = NoSession
  /\ outbox' = [outbox EXCEPT ![s] = Append(@, Out(s, MianNoticeKind(pc[s]), ""))]
  /\ pc' = [pc EXCEPT ![s] = "receive"]
  /\ UNCHANGED << connected_devices, supported_langs, rest, fb, locals, msg,
                  translated, tmpfiles, running, inbox, nsent >>

\* exceptions a send may raise
MianSendExceptions == {"WebSocketDisconnect", "RuntimeError"}

\* a send raises: send_bytes is inside the inner try, so except Exception
\* takes whatever it raises and sends a notice; a send_text of an except
\* clause that raises reaches the outer try
MianSendRaises(s, exc) ==
  /\ pc[s] \in MianNoticePcs \cup {"send_audio"}
  /\ running = NoSession
  /\ exc \in MianSendExceptions
  /\ IF pc[s] = "send_audio"
       THEN /\ pc' = [pc EXCEPT ![s] = "notify_error"]
            /\ UNCHANGED << connected_devices, running, inbox >>
       ELSE MianEscape(s, exc)
  /\ UNCHANGED << supported_langs, rest, fb, locals, msg, translated,
                  tmpfiles, nsent, outbox >>

NextMian ==
  \/ \E s \in Handles, lp \in LangPairs :
       \E id \in IdsFor(s) : MianConnect(s, id, lp[1], lp[2])
  \/ \E s \in Handles, kind \in MianFrameKinds : MianClientSend(s, kind)
  \/ \E s \in Handles, exc \in ReceiveExceptions : MianRecvRaises(s, exc)
  \/ \E s \in Handles : MianRecvBytes(s)
  \/ \E s \in Handles : MianRecvText(s)
  \/ \E s \in Handles, o \in MianDecodeOutcomes : MianDecode(s, o)
  \/ \E s \in Handles, o \in MianStageOutcomes : MianStages(s, o)
  \/ \E s \in Handles : MianAudioSent(s)
  \/ \E s \in Handles : MianNoticeSent(s)
  \/ \E s \in Handles, exc \in MianSendExceptions : MianSendRaises(s, exc)

SpecMian == Init /\ [][NextMian]_vars

\* ------------------------------------------------------------- claims
\* a session is Active from its registration until translate_ws returns
Active(s) == pc[s] \notin {"idle", "closed"}

\* the registry maps the session's own key to the session's own handle
Registered(s) ==
  /\ device_id[s] \in DOMAIN connected_devices
  /\ connected_devices[device_id[s]] = s

\* C1: every handle stored in the registry belongs to a session that is
\* still Active; a session that has ended, for whatever reason, has no
\* entry left whose value is its handle.
C1_RegistryHoldsOnlyActive ==
  \A k \in DOMAIN connected_devices : Active(connected_devices[k])

\* one session has ended after a frame of its own was processed, and the
\* registry still holds the other session
C1_Witness ==
  \E s \in Handles, u \in Handles :
    /\ pc[s] = "closed" /\ outbox[s] # << >>
    /\ Active(u) /\ Registered(u)

\* C2: once the registry maps an id to a handle, it keeps mapping the id
\* to that handle until that handle's own session closes or a later
\* connection registers under the id, whatever the other sessions do.
C2_LatestStaysAddressable ==
  [][ \A s \in Handles :
        ( /\ Registered(s)
          /\ pc'[s] # "closed"
          /\ \A u \in Handles \ {s} : ~(pc[u] = "idle" /\ pc'[u] # "idle") )
        => Registered(s)' ]_vars

\* valid JSON that is not an object {"type":"text","data":<string>} and that
\* the model tells apart from a well-formed frame
MalformedJson == {"text_badtype", "json_raises"}

\* C3: the step that receives a valid-JSON frame of another shape than
\* {"type":"text","data":<string>} sends it to the notice path: the session
\* is not closed, no stage runs and the registry is left as it was.
C3_MalformedJsonKeepsSession ==
  [][ \A s \in Handles :
        (msg'[s] # msg[s] /\ msg'[s].kind \in MalformedJson)
        => /\ pc'[s] \in NoticePcs
           /\ connected_devices' = connected_devices ]_vars

\* the stages of the pipeline and the notices of their failures
StagePcs == {"decode", "translate", "synthesize"}
FailurePcs == {"notify_stt", "notify_translation", "notify_tts"}

\* C4: a stage that fails does not end the session: the step out of a
\* stage leaves the session open and the registry unchanged, and once the
\* failure notice is sent the session is back at receive, registry unchanged.
C4_StageFailureRecovers ==
  [][ \A s \in Handles :
        /\ (pc[s] \in StagePcs /\ pc'[s] # pc[s])
             => /\ pc'[s] # "closed"
                /\ connected_devices' = connected_devices
        /\ (pc[s] \in FailurePcs /\ outbox'[s] # outbox[s])
             => /\ pc'[s] = "receive"
                /\ connected_devices' = connected_devices ]_vars

\* a translation failure has been reported and the session, still
\* registered, is back at receive
C4_Witness ==
  \E s \in Handles :
    /\ pc[s] = "receive" /\ Registered(s)
    /\ outbox[s] # << >>
    /\ outbox[s][Len(outbox[s])].kind = "translation_failed"
\* positions of the frames of one kind in a connection's output
Places(o, kind) == {i \in DOMAIN o : o[i].kind = kind}

\* an earlier frame of that kind answers the same inbound message as o[i]
HasBefore(o, i, kind) ==
  \E j \in DOMAIN o : j < i /\ o[j].kind = kind /\ o[j].n = o[i].n

\* C5: an audio frame, and a synthesis-failure notice, is sent only after
\* the text acknowledgment of the same inbound message, and synthesis runs
\* only once that acknowledgment is sent, so the acknowledgment does not
\* depend on how synthesis ends.
C5_AckBeforeAudio ==
  \A s \in Handles :
    /\ \A i \in DOMAIN outbox[s] :
         outbox[s][i].kind \in {"audio", "tts_failed"}
           => HasBefore(outbox[s], i, "ack")
    /\ pc[s] \in {"synthesize", "send_audio", "notify_tts"}
         => \E j \in Places(outbox[s], "ack") : outbox[s][j].n = msg[s].n

\* one connection has got an audio frame for one message and a synthesis
\* failure notice for another
C5_Witness ==
  \E s \in Handles :
    /\ Places(outbox[s], "audio") # {}
    /\ Places(outbox[s], "tts_failed") # {}

\* C6: the outputs of a connection are in the order of the inbound frames
\* they answer, acknowledgments strictly so; nothing is sent for a frame
\* that is still pending, and every pending frame is later than the one
\* being processed.
C6_SerialProcessing ==
  \A s \in Handles :
    /\ \A i, j \in DOMAIN outbox[s] :
         i < j => /\ outbox[s][i].n <= outbox[s][j].n
                  /\ (outbox[s][i].kind = "ack" /\ outbox[s][j].kind = "ack")
                       => outbox[s][i].n < outbox[s][j].n
    /\ \A i \in DOMAIN outbox[s] : outbox[s][i].n <= msg[s].n
    /\ \A i \in DOMAIN inbox[s] : inbox[s][i].n > msg[s].n
    /\ pc[s] \in {"send_ack", "synthesize", "send_audio"}
         => translated[s].n = msg[s].n

\* two frames sent on one connection have both been acknowledged
C6_Witness ==
  \E s \in Handles : Cardinality(Places(outbox[s], "ack")) = 2

\* the receive steps of a session
Receives(s) == RecvBytes(s) \/ RecvText(s) \/ RecvOther(s)

\* C7: while one session is inside an adapter call that never returns,
\* every other session that waits at receive with a frame pending can
\* take its receive step.
C7_HangStallsOnlyThatSession ==
  \A s \in Handles, u \in Handles :
    (pc[s] = "hung" /\ u # s /\ pc[u] = "receive" /\ inbox[u] # << >>)
      => ENABLED Receives(u)

\* C8: translation of a message starts only after a fallback warning was
\* sent on the connection, when the source or the target language of the
\* connection has an unsupported translation code.
C8_EitherFallbackWarns ==
  \A s \in Handles :
    ( /\ pc[s] = "translate"
      /\ \/ Lookup(src[s])[3] \notin supported_langs
         \/ Lookup(tgt[s])[3] \notin supported_langs )
    => Places(outbox[s], "fallback") # {}

\* C9: on a connection opened with an unsupported target code, the default
\* code being supported: at most one fallback warning is ever sent, exactly
\* one once a message is past the resolve step, none before; every
\* acknowledgment follows the warning; translation and synthesis use the
\* default codes as target.
C9_FallbackWarnedOnce ==
  \A s \in Handles :
    ( /\ pc[s] # "idle"
      /\ Lookup(tgt[s])[3] \notin supported_langs
      /\ "hi" \in supported_langs )
    => /\ Cardinality(Places(outbox[s], "fallback")) <= 1
       /\ (tgt_code[s] = "hi" /\ pc[s] \notin {"warn_fallback", "closed"})
            => Cardinality(Places(outbox[s], "fallback")) = 1
       /\ tgt_code[s] # "hi" => Places(outbox[s], "fallback") = {}
       /\ \A i \in Places(outbox[s], "ack") :
            /\ outbox[s][i].lang = "hi"
            /\ \E j \in Places(outbox[s], "fallback") : j < i
       /\ \A i \in Places(outbox[s], "audio") : outbox[s][i].lang = "hi"
       /\ pc[s] \in {"translate", "send_ack", "synthesize", "send_audio"}
            => tgt_code[s] = "hi" /\ tgt_tts_lang[s] = "hi"

\* a connection with an unsupported target has had two messages translated
\* after a single warning
C9_Witness ==
  \E s \in Handles :
    /\ Lookup(tgt[s])[3] \notin supported_langs
    /\ Cardinality(Places(outbox[s], "ack")) = 2
    /\ Cardinality(Places(outbox[s], "fallback")) = 1

\* frames the pipeline recovers from at the decode step of the message
RecoverableFrames == {"bad_json", "text_badtype", "json_raises", "neither"}

\* the explanatory messages sent for inbound message n
Notices(o, n) ==
  {i \in DOMAIN o : o[i].n = n /\ o[i].kind \in {NoticeKind(p) : p \in NoticePcs}}

\* C10: a frame the pipeline cannot use goes to a notice, and when the
\* loop resumes after a notice exactly one explanatory message has been
\* sent for that inbound message.
C10_EveryFailureOneNotice ==
  [][ \A s \in Handles :
        /\ (msg'[s] # msg[s] /\ msg'[s].kind \in RecoverableFrames)
             => pc'[s] \in NoticePcs
        /\ (pc[s] \in NoticePcs /\ pc'[s] = "receive")
             => Cardinality(Notices(outbox'[s], msg[s].n)) = 1 ]_vars
\* C11: a text frame that is not JSON goes to the "Invalid JSON" notice
\* and nowhere else: receiving it runs no stage, sends nothing and leaves
\* the registry alone; sending the notice adds that one frame, the only
\* output for the message, and puts the session back at receive, open,
\* with the registry as it was.
C11_InvalidJsonOneNotice ==
  [][ \A s \in Handles :
        /\ (msg'[s] # msg[s] /\ msg'[s].kind = "bad_json")
             => /\ pc'[s] = "notify_invalid"
                /\ outbox' = outbox
                /\ connected_devices' = connected_devices
        /\ (pc[s] = "notify_invalid" /\ outbox'[s] # outbox[s])
             => /\ outbox'[s] = Append(outbox[s],
                                       [n |-> msg[s].n, kind |-> "invalid_json",
                                        lang |-> ""])
                /\ {i \in DOMAIN outbox'[s] : outbox'[s][i].n = msg[s].n}
                     = {Len(outbox'[s])}
                /\ pc'[s] = "receive"
                /\ connected_devices' = connected_devices ]_vars

\* the notice for a frame that is not JSON has been sent; the session is
\* at receive and registered
C11_Witness ==
  \E s \in Handles :
    /\ pc[s] = "receive" /\ Registered(s)
    /\ msg[s].kind = "bad_json"
    /\ outbox[s] # << >>
    /\ outbox[s][Len(outbox[s])].kind = "invalid_json"

\* the registry's entry under a key, NoSession when there is none
Entry(d, k) == IF k \in DOMAIN d THEN d[k] ELSE NoSession

\* C12: a step of session a leaves every session b registered under a
\* different device id alone: nothing is sent on b's connection, b is not
\* closed or moved, and the registry entry under b's id is not added,
\* replaced or removed; what the step sends goes on a's connection only.
C12_SessionsIsolated ==
  [][ \A a \in Handles, b \in Handles :
        ( /\ a # b
          /\ pc'[a] # pc[a]
          /\ pc[b] # "idle"
          /\ device_id'[a] # device_id[b] )
        => /\ outbox'[b] = outbox[b]
           /\ pc'[b] = pc[b]
           /\ Entry(connected_devices', device_id[b])
                = Entry(connected_devices, device_id[b]) ]_vars

\* a session has got its audio and has closed while a session under
\* another id, which got nothing, is still registered
C12_Witness ==
  \E a \in Handles, b \in Handles :
    /\ device_id[a] # device_id[b]
    /\ pc[a] = "closed" /\ Places(outbox[a], "audio") # {}
    /\ Active(b) /\ Registered(b) /\ outbox[b] = << >>
C16_ClosedIsTerminal ==
  [][ \A s \in Handles :
        /\ pc[s] = "closed"
             => /\ pc'[s] = "closed"
                /\ outbox'[s] = outbox[s]
                /\ msg'[s] = msg[s]
                /\ translated'[s] = translated[s]
                /\ inbox'[s] = << >>
                /\ nsent'[s] = nsent[s]
                /\ running' # s
        /\ (pc[s] = "receive" /\ pc'[s] = "closed" /\ msg'[s] = msg[s])
             => /\ outbox' = outbox
                /\ msg' = msg
                /\ translated' = translated
                /\ connected_devices'
                     = Pop(connected_devices, device_id[s]) ]_vars

\* a session that worked through a message has closed, another is still
\* open and goes on
C16_Witness ==
  \E s \in Handles, u \in Handles :
    /\ pc[s] = "closed"
    /\ msg[s] # NoMsg
    /\ ~Registered(s)
    /\ pc[u] \in StagePcs

\* the whitespace characters a device id may carry
Whitespace == {" ", "\t", "\n"}

\* C19: every key of the registry is free of whitespace (spaces, tabs,
\* newlines), whatever device id the client supplied.
C19_KeysHaveNoWhitespace ==
  \A k \in DOMAIN connected_devices :
    \A i \in DOMAIN k : k[i] \notin Whitespace
\* C13: translate_only never lets a failure of the translator out as an
\* exception: a request that is answered is answered with translated_text
\* when the translator returned and with error when it raised, never with
\* anything else; both codes used are supported, the looked-up code when
\* that is supported and the default "hi" otherwise; and the request
\* changes neither the registry nor anything of any session.
C13_RestReportsFailureAsValue ==
  [][ rest' # rest =>
        /\ rest'.response \in {"translated_text", "error", "pending"}
        /\ rest'.response = "error" <=> rest'.raised
        /\ rest'.src_code
             = (IF Lookup(rest'.source_lang)[3] \in supported_langs
                  THEN Lookup(rest'.source_lang)[3] ELSE DefaultProfile[3])
        /\ rest'.tgt_code
             = (IF Lookup(rest'.target_lang)[3] \in supported_langs
                  THEN Lookup(rest'.target_lang)[3] ELSE DefaultProfile[3])
        /\ {rest'.src_code, rest'.tgt_code} \subseteq supported_langs
        /\ UNCHANGED << connected_devices, pc, locals, msg, translated,
                        tmpfiles, inbox, nsent, outbox >> ]_vars

\* a request in an unsupported source language was answered with an error
\* while a session was registered
C13_Witness ==
  /\ rest.response = "error"
  /\ rest.source_lang = "Bhojpuri"
  /\ rest.src_code = "hi"
  /\ \E s \in Handles : Registered(s)
\* C14: the fallback step is idempotent: for every profile of
\* language_map and every supported set that holds the default code, the
\* codes (and the voice) after two applications are those after one, and
\* the second application replaces nothing and reports no fallback.
C14_FallbackIdempotent ==
  fb.applied = 2 =>
    /\ fb.src_code = fb.once_src_code
    /\ fb.tgt_code = fb.once_tgt_code
    /\ fb.tgt_tts_lang = fb.once_tgt_tts_lang
    /\ ~fb.changed
    /\ ~fb.warned
    /\ {fb.src_code, fb.tgt_code} \subseteq supported_langs

\* the step was applied twice to a profile whose two codes are both
\* unsupported and were both replaced the first time
C14_Witness ==
  /\ fb.applied = 2
  /\ fb.once_src_code # Lookup(fb.source_lang)[3]
  /\ fb.once_tgt_code # Lookup(fb.target_lang)[3]
\* C17: in mian.py the registry never keeps the handle of a session that
\* has ended: however the handler was left, by a disconnect, by another
\* exception raised while receiving or by an exception of the decoding,
\* no entry of connected_devices holds its handle.
C17_MianEndedSessionsDeregistered ==
  \A k \in DOMAIN connected_devices : pc[connected_devices[k]] \notin MianEnded

\* C18: a binary frame with corrupt or empty bytes does not end the
\* session of mian.py: the step out of the decoding never leaves the
\* handler, so the session stays open and a notice can follow.
C18_MianCorruptFrameKeepsSession ==
  [][ \A s \in Handles :
        (pc[s] = "decode" /\ pc'[s] # "decode")
          => pc'[s] \notin MianEnded ]_vars
====
